---- MODULE Spec2Model ----
(***************************************************************************)
(* A model of donphan: declarative tables (table.py), column descriptors   *)
(* (column.py), the SQL type registry (sqltype.py), ordered enums          *)
(* (enum.py) and the connection helper (connection.py).                    *)
(*                                                                         *)
(* Python objects are modelled by records.  A Column object is a cell of   *)
(* `heap` (its identity is its index), a table class is a cell of          *)
(* `tables`.  A raised exception is a string "<Class>: <message stem>",    *)
(* the empty string meaning that nothing was raised.                       *)
(***************************************************************************)
EXTENDS Integers, Sequences, FiniteSets, TLC

VARIABLES heap, tables, result, enum, cmp, pc, call, pool, sent

vars == <<heap, tables, result, enum, cmp, pc, call, pool, sent>>

(***************************************************************************)
(* Bounds of the model.                                                    *)
(***************************************************************************)
\* Column objects created over a run of class declarations.
MaxCols == 3
\* Entries of a kwargs mapping or of a record.
MaxKw == 2
\* Nesting depth of a value handed to validation.
MaxDepth == 2
\* Elements of one list value.
MaxLen == 2
\* Caller-supplied arguments preceding the generated ones.
MaxArgs == 2
\* Members of an enum.
MaxMembers == 3

Range(s) == {s[i] : i \in DOMAIN s}

\* Sequences over S of length 0..n.
SeqsUpTo(S, n) == UNION {[1..k -> S] : k \in 0..n}

\* Sequences without repeated elements.
IsInjective(s) == \A i, j \in DOMAIN s : s[i] = s[j] => i = j

(***************************************************************************)
(* Exceptions, named by the statement that raises them.                    *)
(***************************************************************************)
NoError == ""
\* table.py:72  unknown kwarg
ErrUnknownColumn == "AttributeError: Could not find column"
\* table.py:83  None into a non-nullable column
ErrNullConstraint == "TypeError: Cannot pass None into non-nullable column"
\* table.py:102 array leaf of the wrong kind
ErrArrayType == "TypeError: Column expected T[], recieved U[]"
\* table.py:110 scalar of the wrong kind
ErrScalarType == "TypeError: Column expected T, recieved U"
\* table.py:177 RETURNING value that is no Column
ErrReturning == "TypeError: Expected a volume for the returning value"
\* column.py:48 foreign key of another type
ErrReferenceType == "AttributeError: Column does not match types with referenced column"
\* sqltype.py:209 no default SQL type for a python type
ErrNoSQLType == "TypeError: Could not find an applicable SQL type"
\* table.py:35  attribute lookup on the SQLType class fails
ErrNoAttribute == "AttributeError: type object 'SQLType' has no attribute"
\* table.py:252 local variable i read before assignment
ErrUnboundLocal == "UnboundLocalError: local variable 'i' referenced before assignment"

\* The errors the specification calls TypeMismatchError.
TypeMismatchErrors == {ErrArrayType, ErrScalarType, ErrReturning, ErrReferenceType}

(***************************************************************************)
(* sqltype.py                                                              *)
(***************************************************************************)
\* SQLType.__init__; cls is the object's class, so that None is told apart.
SQLType(python, sql) == [cls |-> "SQLType", python |-> python, sql |-> sql]

\* The object None where an SQLType is expected.
None == [cls |-> "NoneType", python |-> "", sql |-> ""]

\* The classmethods of SQLType that build a type.
FactoryNames ==
  {"Integer", "SmallInt", "BigInt", "Serial", "Float", "DoublePrecision",
   "Numeric", "Money", "CharacterVarying", "Character", "Text", "Bytea",
   "Timestamp", "Date", "Interval", "Boolean", "Enum", "CIDR", "Inet",
   "MACAddr", "UUID", "JSON", "JSONB", "Char", "VarChar"}

Factory(n) ==
  CASE n = "Integer" -> SQLType("int", "INTEGER")
    [] n = "SmallInt" -> SQLType("int", "SMALLINT")
    [] n = "BigInt" -> SQLType("int", "BIGINT")
    [] n = "Serial" -> SQLType("int", "SERIAL")
    [] n = "Float" -> SQLType("float", "FLOAT")
    [] n = "DoublePrecision" -> SQLType("float", "DOUBLE PRECISION")
    [] n = "Numeric" -> SQLType("Decimal", "NUMERIC")
    [] n = "Money" -> SQLType("str", "MONEY")
    [] n \in {"CharacterVarying", "VarChar"} -> SQLType("str", "CHARACTER VARYING(2000)")
    [] n \in {"Character", "Char"} -> SQLType("str", "CHARACTER")
    [] n = "Text" -> SQLType("str", "TEXT")
    [] n = "Bytea" -> SQLType("bytes", "BYTEA")
    [] n = "Timestamp" -> SQLType("datetime", "TIMESTAMP")
    [] n = "Date" -> SQLType("date", "DATE")
    [] n = "Interval" -> SQLType("timedelta", "INTERVAL")
    [] n = "Boolean" -> SQLType("bool", "BOOLEAN")
    [] n = "Enum" -> SQLType("Enum", "ENUM")
    [] n = "CIDR" -> SQLType("_BaseNetwork", "CIDR")
    [] n = "Inet" -> SQLType("_BaseNetwork", "INET")
    [] n = "MACAddr" -> SQLType("str", "MACADDR")
    [] n = "UUID" -> SQLType("UUID", "UUID")
    [] n = "JSON" -> SQLType("dict", "JSON")
    [] n = "JSONB" -> SQLType("dict", "JSONB")

\* The dictionary _defaults as the @default_for decorators leave it:
\* python type -> the classmethod registered for it.
DefaultKeys ==
  {"int", "float", "Decimal", "str", "bytes", "datetime", "date", "timedelta",
   "bool", "Enum", "IPv4Network", "IPv6Network", "IPv4Address", "IPv6Address",
   "UUID", "dict"}

defaults(k) ==
  CASE k = "int" -> "Integer"
    [] k = "float" -> "Float"
    [] k = "Decimal" -> "Numeric"
    [] k = "str" -> "Text"
    [] k = "bytes" -> "Bytea"
    [] k = "datetime" -> "Timestamp"
    [] k = "date" -> "Date"
    [] k = "timedelta" -> "Interval"
    [] k = "bool" -> "Boolean"
    [] k = "Enum" -> "Enum"
    [] k \in {"IPv4Network", "IPv6Network"} -> "CIDR"
    [] k \in {"IPv4Address", "IPv6Address"} -> "Inet"
    [] k = "UUID" -> "UUID"
    [] k = "dict" -> "JSONB"

\* The attributes a lookup on the class SQLType finds.
SQLTypeAttributes == FactoryNames \cup {"python", "sql", "_from_python_type"}

\* SQLType._from_python_type: the registered default, or TypeError.
from_python_type(python_type) ==
  IF python_type \in DefaultKeys
    THEN [err |-> NoError, type |-> Factory(defaults(python_type))]
    ELSE [err |-> ErrNoSQLType, type |-> None]

\* SQLType.__eq__
SQLTypeEq(self, other) == other.cls = self.cls /\ self.sql = other.sql

\* self != other: python derives __ne__ from __eq__.
SQLTypeNe(self, other) == ~SQLTypeEq(self, other)

(***************************************************************************)
(* column.py                                                               *)
(***************************************************************************)
\* The keyword arguments of Column(...) with their defaults.
ColumnDefaults ==
  [index |-> FALSE, primary_key |-> FALSE, unique |-> FALSE,
   auto_increment |-> FALSE, nullable |-> TRUE, has_default |-> FALSE,
   references |-> 0]

\* Column.__init__ on top of the class attributes name, type, table, is_array.
\* table and references are object identities, 0 for None; name "" is None.
Column(opts) ==
  [table |-> 0, name |-> "", type |-> None, is_array |-> FALSE,
   index |-> opts.index, primary_key |-> opts.primary_key,
   unique |-> opts.unique, auto_increment |-> opts.auto_increment,
   nullable |-> opts.nullable, has_default |-> opts.has_default,
   references |-> opts.references]

\* Column._update on the column object c of heap h: the four assignments, then
\* the check of the referenced column's type.
Column_update(h, c, table, name, type, is_array) ==
  LET h2 == [h EXCEPT ![c].table = table, ![c].name = name,
                      ![c].type = type, ![c].is_array = is_array]
      ref == h2[c].references
  IN  [heap |-> h2,
       err |-> IF ref # 0 /\ SQLTypeNe(h2[c].type, h2[ref].type)
                 THEN ErrReferenceType ELSE NoError]

(***************************************************************************)
(* table.py: _TableMeta                                                    *)
(*                                                                         *)
(* An annotation is [depth, form, of]: `depth` list brackets around a type *)
(* that is an SQLType instance (form "instance", of = the classmethod that *)
(* built it), a classmethod of SQLType itself (form "method"), or anything *)
(* else (form "python", of = the python type's name).                      *)
(***************************************************************************)
\* while isinstance(_type, list): is_array = True; _type = _type[0]
RECURSIVE UnwrapList(_, _)
UnwrapList(depth, is_array) ==
  IF depth > 0 THEN UnwrapList(depth - 1, TRUE) ELSE is_array

\* Lines 32-35: the SQLType the annotation stands for.
ResolveType(ann) ==
  IF ann.form = "method"
    THEN [err |-> NoError, type |-> Factory(ann.of)]
  ELSE IF ann.form = "instance"
    THEN [err |-> NoError, type |-> Factory(ann.of)]
  ELSE IF "from_python_type" \in SQLTypeAttributes
    THEN from_python_type(ann.of)
    ELSE [err |-> ErrNoAttribute, type |-> None]

\* The loop over __annotations__: field i of the class body is bound to the
\* column object dct[i]; the first exception ends the loop.
RECURSIVE TableMetaLoop(_, _, _, _, _)
TableMetaLoop(st, fields, t, dct, i) ==
  IF i > Len(fields) \/ st.err # NoError THEN st
  ELSE
    LET f == fields[i]
        is_array == UnwrapList(f.ann.depth, FALSE)
        rt == ResolveType(f.ann)
    IN  IF rt.err # NoError THEN [st EXCEPT !.err = rt.err]
        ELSE
          LET u == Column_update(st.heap, dct[i], t, f.name, rt.type, is_array)
          IN  IF u.err # NoError
                THEN [heap |-> u.heap, columns |-> st.columns, err |-> u.err]
                ELSE TableMetaLoop(
                       [heap |-> u.heap,
                        columns |-> Append(st.columns,
                                           [key |-> f.name, col |-> dct[i]]),
                        err |-> NoError],
                       fields, t, dct, i + 1)

\* str.lower on the class names in use.
Lower(name) ==
  CASE name = "Users" -> "users"
    [] name = "Points" -> "points"
    [] name = "Posts" -> "posts"
    [] name = "Tags" -> "tags"
    [] OTHER -> name

\* The fields of a class body whose value is a Column built in the body
\* (use = 0); the others (use = c) are given the Column object c that existed
\* before.
IsNew(f) == f.use = 0

NewBefore(fields, i) == Cardinality({j \in 1..i : IsNew(fields[j])})

\* dct.get(_name, Column()): the Column object of field i, the objects built
\* by the body following those of the heap in the order of the fields.
ObjectOf(fields, base, i) ==
  IF IsNew(fields[i]) THEN base + NewBefore(fields, i) ELSE fields[i].use

\* A class statement `class <name>(Table, schema=...)`: the body builds the
\* new Column objects (a field without a value gets Column(), which is Column
\* with the defaults), then _TableMeta.__new__ binds every field's object.
\* The class object exists from line 22 on, also when binding raises: err
\* keeps the exception.  annotations is dct['__annotations__'], dct the
\* Column object of each field.
TableMetaNew(h, ts, cd) ==
  LET base == Len(h)
      t == Len(ts) + 1
      built == SelectSeq(cd.fields, IsNew)
      h0 == h \o [i \in DOMAIN built |-> Column(built[i].opts)]
      dct == [i \in DOMAIN cd.fields |-> ObjectOf(cd.fields, base, i)]
      st == TableMetaLoop([heap |-> h0, columns |-> <<>>, err |-> NoError],
                          cd.fields, t, dct, 1)
  IN  [heap |-> st.heap,
       tables |-> Append(ts, [name |-> cd.name, parents |-> cd.parents,
                              schema |-> cd.schema,
                              annotations |-> [i \in DOMAIN cd.fields |->
                                                 [key |-> cd.fields[i].name,
                                                  ann |-> cd.fields[i].ann]],
                              dct |-> dct,
                              columns |-> st.columns, err |-> st.err])]

\* _TableMeta.__getattr__ for '_name': f'{cls.schema}.{cls.__name__.lower()}'
FullName(tbl) == tbl.schema \o "." \o Lower(tbl.name)

\* key in cls._columns
HasColumn(tbl, key) == \E i \in DOMAIN tbl.columns : tbl.columns[i].key = key

\* cls._columns[key]
ColumnOf(tbl, key) ==
  LET i == CHOOSE i \in DOMAIN tbl.columns : tbl.columns[i].key = key
  IN  tbl.columns[i].col

(***************************************************************************)
(* Python values: [tag, n, s, items].  tag is the value's class; n carries *)
(* an int (or the identity of a Column object), s a str, items the         *)
(* elements of a list or tuple.                                            *)
(***************************************************************************)
PyNone == [tag |-> "NoneType", n |-> 0, s |-> "", items |-> <<>>]
PyInt(n) == [tag |-> "int", n |-> n, s |-> "", items |-> <<>>]
PyBool(n) == [tag |-> "bool", n |-> n, s |-> "", items |-> <<>>]
PyStr(s) == [tag |-> "str", n |-> 0, s |-> s, items |-> <<>>]
PyList(items) == [tag |-> "list", n |-> 0, s |-> "", items |-> items]
PyTuple(items) == [tag |-> "tuple", n |-> 0, s |-> "", items |-> items]
PyColumn(c) == [tag |-> "Column", n |-> c, s |-> "", items |-> <<>>]

\* issubclass(a, b) for the classes in use.
IsSubclass(a, b) ==
  \/ a = b
  \/ a = "bool" /\ b = "int"
  \/ a = "datetime" /\ b = "date"
  \/ a \in {"IPv4Network", "IPv6Network"} /\ b = "_BaseNetwork"

\* isinstance(value, cls)
IsInstance(value, cls) == IsSubclass(value.tag, cls)

\* bool(value)
Truthy(value) ==
  CASE value.tag = "NoneType" -> FALSE
    [] value.tag = "str" -> value.s # ""
    [] value.tag \in {"list", "tuple"} -> value.items # <<>>
    [] value.tag \in {"int", "bool"} -> value.n # 0
    [] OTHER -> TRUE

\* isinstance(value, Iterable)
IsIterable(value) == value.tag \in {"str", "list", "tuple"}

\* The characters of the strings in use, each a str of length one.
Chars(s) ==
  CASE s = "" -> <<>>
    [] s = "id" -> <<PyStr("i"), PyStr("d")>>
    [] OTHER -> <<PyStr(s)>>

\* iter(value) for an iterable value.
Iterate(value) == IF value.tag = "str" THEN Chars(value.s) ELSE value.items

(***************************************************************************)
(* table.py: Table._validate_kwargs                                        *)
(*                                                                         *)
(* A kwargs mapping, a record and the dict `verified` are sequences of     *)
(* [key, value] with distinct keys, in insertion order.                    *)
(***************************************************************************)
Keys(d) == [i \in DOMAIN d |-> d[i].key]

\* dict.values()
Values(d) == [i \in DOMAIN d |-> d[i].value]

\* d[key] = value: a present key keeps its place, a new key goes last.
DictSet(d, key, value) ==
  IF \E i \in DOMAIN d : d[i].key = key
    THEN [i \in DOMAIN d |->
            IF d[i].key = key THEN [key |-> key, value |-> value] ELSE d[i]]
    ELSE Append(d, [key |-> key, value |-> value])

\* check_type: isinstance(element, (column.type.python, type(None)))
check_type(column, element) ==
  IsInstance(element, column.type.python) \/ IsInstance(element, "NoneType")

\* check_array: TRUE when no leaf of element raises.
RECURSIVE check_array(_, _)
check_array(column, element) ==
  IF IsInstance(element, "list") \/ IsInstance(element, "tuple")
    THEN \A i \in DOMAIN element.items : check_array(column, element.items[i])
    ELSE check_type(column, element)

\* Mutant of SkipColumn: every column of the record is kept.
SkipNoColumn(primary_keys_only, column) == FALSE

\* Lines 78-79: the columns primary_keys_only leaves out.
SkipColumn(primary_keys_only, column) ==
  primary_keys_only /\ ~column.primary_key

\* Lines 81-111: the exception one value raises, or NoError.
CheckValue(column, value) ==
  IF ~column.nullable /\ value.tag = "NoneType" THEN ErrNullConstraint
  ELSE IF column.is_array
    THEN (IF check_array(column, value) THEN NoError ELSE ErrArrayType)
  ELSE IF ~check_type(column, value) THEN ErrScalarType
  ELSE NoError

RECURSIVE ValidateLoop(_, _, _, _, _, _)
ValidateLoop(h, tbl, primary_keys_only, kwargs, i, verified) ==
  IF i > Len(kwargs) THEN [err |-> NoError, verified |-> verified]
  ELSE
    LET kwarg == kwargs[i].key
        value == kwargs[i].value
    IN  IF ~HasColumn(tbl, kwarg)
          THEN [err |-> ErrUnknownColumn, verified |-> <<>>]
        ELSE
          LET column == h[ColumnOf(tbl, kwarg)]
          IN  IF SkipColumn(primary_keys_only, column)
                THEN ValidateLoop(h, tbl, primary_keys_only, kwargs, i + 1, verified)
              ELSE IF CheckValue(column, value) # NoError
                THEN [err |-> CheckValue(column, value), verified |-> <<>>]
              ELSE ValidateLoop(h, tbl, primary_keys_only, kwargs, i + 1,
                                DictSet(verified, column.name, value))

validate_kwargs(h, tbl, primary_keys_only, kwargs) ==
  ValidateLoop(h, tbl, primary_keys_only, kwargs, 1, <<>>)

(***************************************************************************)
(* table.py: the query builders.                                           *)
(*                                                                         *)
(* A statement is its `builder` list, joined by " " when rendered.  A part *)
(* is a literal text, or a list of items joined by a separator (kind       *)
(* "join") and possibly put in parentheses (kind "parens").  An item       *)
(* [name, ph] renders as `name` (ph = 0), `$ph` (name = "") or             *)
(* `name = $ph`.                                                           *)
(***************************************************************************)
Text(t) == [kind |-> "text", text |-> t, items |-> <<>>]

Joined(sep, items) == [kind |-> "join", text |-> sep, items |-> items]

Parens(sep, items) == [kind |-> "parens", text |-> sep, items |-> items]

\* The names of a list, as items without a placeholder.
Names(keys) == [j \in DOMAIN keys |-> [name |-> keys[j], ph |-> 0]]

\* Mutant of Placeholders: enumerate without its start, counting from 0.
PlaceholdersFromZero(keys, start) ==
  [j \in DOMAIN keys |-> [name |-> "", ph |-> j - 1]]

\* f'${i}' for i, _ in enumerate(keys, start)
Placeholders(keys, start) ==
  [j \in DOMAIN keys |-> [name |-> "", ph |-> start + j - 1]]

\* f'{key} = ${i}' for i, key in enumerate(keys, start)
Assignments(keys, start) ==
  [j \in DOMAIN keys |-> [name |-> keys[j], ph |-> start + j - 1]]

\* The loop variable i after `for i, key in enumerate(keys, start)`: it is
\* left unbound when keys is empty.
LoopVariable(keys, start) ==
  IF Len(keys) = 0 THEN [bound |-> FALSE, val |-> 0]
  ELSE [bound |-> TRUE, val |-> start + Len(keys) - 1]

Raise(err) == [err |-> err, sql |-> <<>>, args |-> <<>>]

Return(sql, args) == [err |-> NoError, sql |-> sql, args |-> args]

\* list.append for an optional part.
AppendIf(cond, builder, part) == IF cond THEN Append(builder, part) ELSE builder

\* ', '.join / ' AND '.join of str items raises on a name that is None.
JoinRaises(names) == \E j \in DOMAIN names : names[j] = ""

ErrJoin == "TypeError: sequence item: expected str instance, NoneType found"

\* _query_drop_table
query_drop_table(tbl, cascade) ==
  Return(<<Text("DROP TABLE IF EXISTS " \o FullName(tbl)
                \o (IF cascade THEN " CASCADE" ELSE ""))>>, <<>>)

\* _query_create_schema
query_create_schema(tbl) ==
  Return(<<Text("CREATE SCHEMA IF NOT EXISTS " \o tbl.schema \o ";")>>, <<>>)

\* '[]' * self.is_array: a str times a bool, which counts as 0 or 1.
ArraySuffix(is_array) == IF is_array THEN "[]" ELSE ""

\* Column.__str__: " ".join of the name, the SQL keyword, the array suffix,
\* DEFAULT and the referenced table(column).  f"{self.name}" of an unbound
\* column is "None".
Column_str(h, ts, c) ==
  LET self == h[c]
      b1 == <<(IF self.name = "" THEN "None" ELSE self.name), self.type.sql>>
      b2 == IF self.is_array THEN Append(b1, ArraySuffix(self.is_array)) ELSE b1
      b3 == IF self.has_default THEN Append(b2, "DEFAULT") ELSE b2
      b4 == IF self.references # 0
              THEN b3 \o <<"REFERENCES",
                           FullName(ts[h[self.references].table]) \o "("
                             \o h[self.references].name \o ")">>
              ELSE b3
  IN  b4

\* str.join of a list of str
RECURSIVE StrJoin(_, _)
StrJoin(sep, strs) ==
  IF strs = <<>> THEN ""
  ELSE IF Len(strs) = 1 THEN strs[1]
  ELSE strs[1] \o sep \o StrJoin(sep, Tail(strs))

\* _query_create_table: the builder holds one line per entry; it is joined
\* by "\n".
query_create_table(h, ts, tbl) ==
  LET cols == [j \in DOMAIN tbl.columns |-> tbl.columns[j].col]
      IsKey(c) == h[c].primary_key
      primary_keys == [j \in DOMAIN SelectSeq(cols, IsKey) |->
                         h[SelectSeq(cols, IsKey)[j]].name]
  IN  Return(<<Text("CREATE TABLE IF NOT EXISTS " \o FullName(tbl) \o " (")>>
             \o [j \in DOMAIN cols |->
                   Text("\t" \o StrJoin(" ", Column_str(h, ts, cols[j])) \o ",")]
             \o <<Text("\tPRIMARY KEY (" \o StrJoin(", ", primary_keys) \o ")"),
                  Text(");")>>,
             <<>>)

\* Lines 161-181 of _query_insert: the parts RETURNING adds to the builder.
ReturningParts(h, returning) ==
  IF ~Truthy(returning) THEN [err |-> NoError, parts |-> <<>>]
  ELSE IF returning = PyStr("*")
    THEN [err |-> NoError, parts |-> <<Text("RETURNING"), Text("*")>>]
  ELSE
    LET values == IF ~IsIterable(returning) THEN <<returning>>
                  ELSE Iterate(returning)
        names == [j \in DOMAIN values |-> h[values[j].n].name]
    IN  IF \E j \in DOMAIN values : ~IsInstance(values[j], "Column")
          THEN [err |-> ErrReturning, parts |-> <<>>]
        ELSE IF JoinRaises(names) THEN [err |-> ErrJoin, parts |-> <<>>]
        ELSE [err |-> NoError,
              parts |-> <<Text("RETURNING"), Joined(", ", Names(names))>>]

\* _query_insert
query_insert(h, tbl, returning, kwargs) ==
  LET v == validate_kwargs(h, tbl, FALSE, kwargs)
      verified == v.verified
      r == ReturningParts(h, returning)
  IN  IF v.err # NoError THEN Raise(v.err)
      ELSE IF r.err # NoError THEN Raise(r.err)
      ELSE Return(<<Text("INSERT INTO " \o FullName(tbl)),
                    Parens(", ", Names(Keys(verified))),
                    Text("VALUES"),
                    Parens(", ", Placeholders(Keys(verified), 1))>> \o r.parts,
                  Values(verified))

\* _query_insert_many; columns is a list of Column objects.
query_insert_many(h, tbl, columns) ==
  LET names == [j \in DOMAIN columns |-> h[columns[j]].name]
  IN  IF JoinRaises(names) THEN Raise(ErrJoin)
      ELSE Return(<<Text("INSERT INTO " \o FullName(tbl)),
                    Parens(", ", Names(names)),
                    Text("VALUES"),
                    Parens(", ", Placeholders(names, 1))>>, <<>>)

\* Lines 211-215 and 226-230: the ORDER BY and LIMIT parts; order_by is None
\* or a str, limit None or an int.
OrderLimit(builder, order_by, limit) ==
  AppendIf(limit # PyNone,
           AppendIf(order_by # PyNone, builder, Text("ORDER BY " \o order_by.s)),
           Text("LIMIT " \o ToString(limit.n)))

\* _query_fetch
query_fetch(h, tbl, order_by, limit, kwargs) ==
  LET v == validate_kwargs(h, tbl, FALSE, kwargs)
      verified == v.verified
      select == <<Text("SELECT * FROM " \o FullName(tbl))>>
      where == IF verified # <<>>
                 THEN <<Text("WHERE"),
                        Joined(" AND ", Assignments(Keys(verified), 1))>>
                 ELSE <<>>
  IN  IF v.err # NoError THEN Raise(v.err)
      ELSE Return(OrderLimit(select \o where, order_by, limit), Values(verified))

\* _query_fetch_where
query_fetch_where(tbl, query, order_by, limit) ==
  Return(OrderLimit(<<Text("SELECT * FROM " \o FullName(tbl) \o " WHERE"),
                      Text(query)>>, order_by, limit), <<>>)

\* Line 252 of _query_update_record: enumerate(record_keys, i+1) with the i
\* the SET loop left.
WhereStart(i) == i.val + 1

\* _query_update_record
query_update_record(h, tbl, record, kwargs) ==
  LET v == validate_kwargs(h, tbl, FALSE, kwargs)
      verified == v.verified
      i == LoopVariable(Keys(verified), 1)
      rk == validate_kwargs(h, tbl, TRUE, record)
      record_keys == rk.verified
  IN  IF v.err # NoError THEN Raise(v.err)
      ELSE IF rk.err # NoError THEN Raise(rk.err)
      ELSE IF ~i.bound THEN Raise(ErrUnboundLocal)
      ELSE Return(<<Text("UPDATE " \o FullName(tbl) \o " SET"),
                    Joined(", ", Assignments(Keys(verified), 1)),
                    Text("WHERE"),
                    Joined(" AND ", Assignments(Keys(record_keys), WhereStart(i)))>>,
                  Values(verified) \o Values(record_keys))

\* Mutant of SetStart: the SET clause numbered from 1 whatever precedes it.
SetStartAtOne(values) == 1

\* Line 267 of _query_update_where: enumerate(verified, len(values) + 1)
SetStart(values) == Len(values) + 1

\* _query_update_where; values is the caller's tuple of arguments.
query_update_where(h, tbl, query, values, kwargs) ==
  LET v == validate_kwargs(h, tbl, FALSE, kwargs)
      verified == v.verified
  IN  IF v.err # NoError THEN Raise(v.err)
      ELSE Return(<<Text("UPDATE " \o FullName(tbl) \o " SET"),
                    Joined(", ", Assignments(Keys(verified), SetStart(values))),
                    Text("WHERE"),
                    Text(query)>>,
                  values \o Values(verified))

\* _query_delete_record
query_delete_record(h, tbl, record) ==
  LET rk == validate_kwargs(h, tbl, TRUE, record)
      record_keys == rk.verified
  IN  IF rk.err # NoError THEN Raise(rk.err)
      ELSE Return(<<Text("DELETE FROM " \o FullName(tbl)),
                    Text("WHERE"),
                    Joined(" AND ", Assignments(Keys(record_keys), 1))>>,
                  Values(record_keys))

\* _query_delete_where
query_delete_where(tbl, query) ==
  Return(<<Text("DELETE FROM " \o FullName(tbl)), Text("WHERE"), Text(query)>>,
         <<>>)

(***************************************************************************)
(* The text of a statement: " ".join(builder).                             *)
(***************************************************************************)
RenderItem(item) ==
  IF item.ph = 0 THEN item.name
  ELSE IF item.name = "" THEN "$" \o ToString(item.ph)
  ELSE item.name \o " = $" \o ToString(item.ph)

RECURSIVE Join(_, _, _)
Join(sep, strs, j) ==
  IF j > Len(strs) THEN ""
  ELSE IF j = Len(strs) THEN strs[j]
  ELSE strs[j] \o sep \o Join(sep, strs, j + 1)

RenderPart(part) ==
  LET body == Join(part.text, [j \in DOMAIN part.items |-> RenderItem(part.items[j])], 1)
  IN  CASE part.kind = "text" -> part.text
        [] part.kind = "join" -> body
        [] part.kind = "parens" -> "(" \o body \o ")"

Render(sql) == Join(" ", [j \in DOMAIN sql |-> RenderPart(sql[j])], 1)

(***************************************************************************)
(* connection.py: MaybeAcquire.  A connection is named by a string, "" for *)
(* None; the pool is the number of its connections in use.                 *)
(***************************************************************************)
PoolConnection == "pool-connection"

CallerConnection == "caller-connection"

\* MaybeAcquire.__init__ and __aenter__
MaybeAcquire_aenter(p, connection) ==
  IF connection = ""
    THEN [cleanup |-> TRUE, connection |-> PoolConnection,
          pool |-> [p EXCEPT !.in_use = @ + 1]]
    ELSE [cleanup |-> FALSE, connection |-> connection, pool |-> p]

\* Mutant of MaybeAcquire_aexit: the connection is never released.
MaybeAcquire_aexitKeeps(p, cleanup) == p

\* MaybeAcquire.__aexit__
MaybeAcquire_aexit(p, cleanup) ==
  IF cleanup THEN [p EXCEPT !.in_use = @ - 1] ELSE p

(***************************************************************************)
(* The declarations and the arguments the model draws from.                *)
(***************************************************************************)
Ann(depth, form, of) == [depth |-> depth, form |-> form, of |-> of]

Field(name, ann, opts) == [name |-> name, ann |-> ann, opts |-> opts, use |-> 0]

PrimaryKey == [ColumnDefaults EXCEPT !.primary_key = TRUE]

NotNull == [ColumnDefaults EXCEPT !.nullable = FALSE]

\* class Users(Table):
\*     id: SQLType.Serial = Column(primary_key=True)
\*     name: SQLType.Text() = Column(nullable=False)
\*     tags: [SQLType.Text()]
ClassUsers ==
  [name |-> "Users", parents |-> 0, schema |-> "public",
   fields |-> <<Field("id", Ann(0, "method", "Serial"), PrimaryKey),
                Field("name", Ann(0, "instance", "Text"), NotNull),
                Field("tags", Ann(1, "instance", "Text"), ColumnDefaults)>>]

\* class Points(Table):
\*     x: SQLType.Integer = Column(primary_key=True)
\*     y: SQLType.Integer() = Column(primary_key=True)
\*     coords: [[SQLType.Integer()]]
ClassPoints ==
  [name |-> "Points", parents |-> 0, schema |-> "public",
   fields |-> <<Field("x", Ann(0, "method", "Integer"), PrimaryKey),
                Field("y", Ann(0, "instance", "Integer"), PrimaryKey),
                Field("coords", Ann(2, "instance", "Integer"), ColumnDefaults)>>]

\* The program state after the two class statements.
Schema ==
  LET s1 == TableMetaNew(<<>>, <<>>, ClassUsers)
  IN  TableMetaNew(s1.heap, s1.tables, ClassPoints)

ColumnKeys(tbl) == {tbl.columns[i].key : i \in DOMAIN tbl.columns}

\* A name that is no column of any table.
UnknownKey == "zzz"

\* Ordered mappings with at most n entries, keys from K, values from V.
Mappings(K, V, n) ==
  {m \in SeqsUpTo([key : K, value : V], n) : IsInjective(Keys(m))}

KwValues == {PyNone, PyInt(1), PyStr("x"), PyList(<<PyList(<<PyInt(1)>>)>>)}

RecValues == {PyInt(2), PyStr("y")}

ArgValues == {PyInt(7)}

Kwargs(tbl, n) == Mappings(ColumnKeys(tbl) \cup {UnknownKey}, KwValues, n)

Records(tbl, n) == Mappings(ColumnKeys(tbl), RecValues, n)

\* The values given as `returning`.
ReturningSpecs(h) ==
  {PyNone, PyStr("*"), PyStr("id"), PyStr(""), PyInt(5), PyList(<<>>)}
    \cup {PyColumn(c) : c \in DOMAIN h}
    \cup {PyList(<<PyColumn(c), PyColumn(d)>>) : c \in DOMAIN h, d \in {1, Len(h)}}
    \cup {PyTuple(<<PyColumn(c), PyStr("id")>>) : c \in DOMAIN h}

\* A raw predicate with one placeholder per preceding argument.
Predicate(values) ==
  CASE Len(values) = 0 -> "a IS NULL"
    [] Len(values) = 1 -> "a > $1"
    [] Len(values) = 2 -> "a > $1 AND b < $2"
    [] OTHER -> "a > $1 AND b < $2 AND c IN (...)"

OrderBys == {PyNone, PyStr("id DESC")}

Limits == {PyNone, PyInt(10)}

\* The arguments of one call: the fields an operation does not take keep
\* these values.
NoInput ==
  [op |-> "", table |-> 0, kwargs |-> <<>>, record |-> <<>>, values |-> <<>>,
   returning |-> PyNone, query |-> "", order_by |-> PyNone, limit |-> PyNone,
   primary_keys_only |-> FALSE, columns |-> <<>>, cascade |-> FALSE,
   drop_if_exists |-> FALSE]

ValidateInputs(t, n) ==
  {[NoInput EXCEPT !.op = "validate", !.table = t, !.kwargs = k,
                   !.primary_keys_only = p] :
     k \in Kwargs(tables[t], n), p \in BOOLEAN}

InsertInputs(t, n) ==
  {[NoInput EXCEPT !.op = "insert", !.table = t, !.kwargs = k, !.returning = r] :
     k \in Kwargs(tables[t], n), r \in ReturningSpecs(heap)}

InsertManyInputs(t, n) ==
  {[NoInput EXCEPT !.op = "insert_many", !.table = t, !.columns = c] :
     c \in SeqsUpTo(DOMAIN heap, n)}

FetchInputs(t, n) ==
  {[NoInput EXCEPT !.op = "fetch", !.table = t, !.kwargs = k, !.order_by = o,
                   !.limit = l] :
     k \in Kwargs(tables[t], n), o \in OrderBys, l \in Limits}

FetchrowInputs(t, n) ==
  {[NoInput EXCEPT !.op = "fetchrow", !.table = t, !.kwargs = k, !.order_by = o] :
     k \in Kwargs(tables[t], n), o \in OrderBys}

FetchallInputs(t) ==
  {[NoInput EXCEPT !.op = "fetchall", !.table = t, !.order_by = o, !.limit = l] :
     o \in OrderBys, l \in Limits}

FetchWhereInputs(t, p) ==
  {[NoInput EXCEPT !.op = "fetch_where", !.table = t, !.values = v,
                   !.query = Predicate(v), !.order_by = o, !.limit = l] :
     v \in SeqsUpTo(ArgValues, p), o \in OrderBys, l \in Limits}

FetchrowWhereInputs(t, p) ==
  {[NoInput EXCEPT !.op = "fetchrow_where", !.table = t, !.values = v,
                   !.query = Predicate(v), !.order_by = o] :
     v \in SeqsUpTo(ArgValues, p), o \in OrderBys}

UpdateRecordInputs(t, n) ==
  {[NoInput EXCEPT !.op = "update_record", !.table = t, !.kwargs = k, !.record = r] :
     k \in Kwargs(tables[t], n), r \in Records(tables[t], n)}

UpdateWhereInputs(t, n, p) ==
  {[NoInput EXCEPT !.op = "update_where", !.table = t, !.kwargs = k, !.values = v,
                   !.query = Predicate(v)] :
     k \in Kwargs(tables[t], n), v \in SeqsUpTo(ArgValues, p)}

DeleteRecordInputs(t, n) ==
  {[NoInput EXCEPT !.op = "delete_record", !.table = t, !.record = r] :
     r \in Records(tables[t], n)}

DropTableInputs(t) ==
  {[NoInput EXCEPT !.op = "drop_table", !.table = t, !.cascade = c] : c \in BOOLEAN}

CreateTableInputs(t) == {[NoInput EXCEPT !.op = "create_table", !.table = t]}

\* The query builder each operation calls (the _query_* classmethod, or
\* _validate_kwargs itself), applied to the arguments.
Generate(h, ts, in) ==
  LET tbl == ts[in.table]
  IN  CASE in.op = "validate" ->
             LET v == validate_kwargs(h, tbl, in.primary_keys_only, in.kwargs)
             IN  [err |-> v.err, sql |-> <<>>, args |-> v.verified]
        [] in.op = "insert" -> query_insert(h, tbl, in.returning, in.kwargs)
        [] in.op = "insert_many" -> query_insert_many(h, tbl, in.columns)
        [] in.op = "fetch" -> query_fetch(h, tbl, in.order_by, in.limit, in.kwargs)
        [] in.op = "fetchrow" -> query_fetch(h, tbl, PyNone, PyNone, in.kwargs)
        [] in.op = "fetchall" -> query_fetch(h, tbl, in.order_by, in.limit, <<>>)
        [] in.op = "fetch_where" ->
             query_fetch_where(tbl, in.query, in.order_by, in.limit)
        [] in.op = "fetchrow_where" ->
             query_fetch_where(tbl, in.query, in.order_by, PyNone)
        [] in.op = "update_record" -> query_update_record(h, tbl, in.record, in.kwargs)
        [] in.op = "update_where" ->
             query_update_where(h, tbl, in.query, in.values, in.kwargs)
        [] in.op = "delete_record" -> query_delete_record(h, tbl, in.record)
        [] in.op = "drop_table" -> query_drop_table(tbl, in.cascade)
        [] in.op = "create_table" -> query_create_table(h, ts, tbl)

NoOutput == [err |-> NoError, sql |-> <<>>, args |-> <<>>]

NoResult == [in |-> NoInput, out |-> NoOutput]

NoCall ==
  [in |-> NoInput, connection |-> "", out |-> NoOutput, generated |-> FALSE,
   entered |-> FALSE, cleanup |-> FALSE, using |-> "", acquired |-> 0,
   released |-> 0, failed |-> FALSE, frames |-> <<>>]

NoEnum == [members |-> <<>>]

NoCmp == [a |-> 0, b |-> 0, lt |-> FALSE, gt |-> FALSE, le |-> FALSE, ge |-> FALSE]

(***************************************************************************)
(* The program: the two tables are declared, then their query builders are *)
(* called directly (result keeps the last call) or through the coroutines  *)
(* of Table (call, pc, pool and sent follow the one in flight).            *)
(***************************************************************************)
Init ==
  /\ heap = Schema.heap
  /\ tables = Schema.tables
  /\ result = NoResult
  /\ enum = NoEnum
  /\ cmp = NoCmp
  /\ pc = 0
  /\ call = NoCall
  /\ pool = [in_use |-> 0]
  /\ sent = <<>>

\* No call is in flight and the last one's outcome has been dropped.
Idle == pc = 0 /\ result = NoResult /\ call = NoCall

\* A direct call of a query builder with the arguments `in`.
Direct(in) ==
  /\ Idle
  /\ result' = [in |-> in, out |-> Generate(heap, tables, in)]
  /\ call' = NoCall
  /\ sent' = <<>>
  /\ UNCHANGED <<heap, tables, enum, cmp, pc, pool>>

CallValidate ==
  /\ Idle
  /\ \E t \in DOMAIN tables : \E in \in ValidateInputs(t, MaxKw) : Direct(in)

CallInsert ==
  /\ Idle
  /\ \E t \in DOMAIN tables : \E in \in InsertInputs(t, MaxKw) : Direct(in)

CallInsertMany ==
  /\ Idle
  /\ \E t \in DOMAIN tables : \E in \in InsertManyInputs(t, MaxKw) : Direct(in)

CallFetch ==
  /\ Idle
  /\ \E t \in DOMAIN tables : \E in \in FetchInputs(t, MaxKw) : Direct(in)

CallUpdateRecord ==
  /\ Idle
  /\ \E t \in DOMAIN tables : \E in \in UpdateRecordInputs(t, MaxKw) : Direct(in)

CallUpdateWhere ==
  /\ Idle
  /\ \E t \in DOMAIN tables : \E in \in UpdateWhereInputs(t, MaxKw, MaxArgs) : Direct(in)

CallDeleteRecord ==
  /\ Idle
  /\ \E t \in DOMAIN tables : \E in \in DeleteRecordInputs(t, MaxKw) : Direct(in)

CallDropTable ==
  /\ Idle
  /\ \E t \in DOMAIN tables : \E in \in DropTableInputs(t) : Direct(in)

CallCreateTable ==
  /\ Idle
  /\ \E t \in DOMAIN tables : \E in \in CreateTableInputs(t) : Direct(in)

(***************************************************************************)
(* The coroutines of Table that take kwargs or a record.  Each runs the    *)
(* steps of its body in source order:                                      *)
(*     query, values = cls._query_...(...)            "generate"           *)
(*     async with MaybeAcquire(connection) as c:      "aenter"             *)
(*         await c.execute(query, *values)            "body"               *)
(*                                                    "aexit"              *)
(***************************************************************************)
FacadeOps ==
  {"fetch", "fetchrow", "insert", "insert_many", "update_record",
   "update_where", "delete_record", "fetchall", "fetch_where",
   "fetchrow_where", "drop_table"}

\* Mutant of FacadeSteps: the connection is acquired before the query is built.
FacadeStepsAcquireFirst(op) == <<"aenter", "generate", "body", "aexit">>

\* drop_table builds its statement inside the `async with` block, the others
\* before it.
FacadeSteps(op) ==
  IF op = "drop_table" THEN <<"aenter", "generate", "body", "aexit">>
  ELSE <<"generate", "aenter", "body", "aexit">>

\* The arguments the coroutines are started with: those of the direct calls
\* with at most one kwarg, one record field and one preceding argument.
FacadeInputs(t) ==
  {in \in InsertInputs(t, 1) \cup InsertManyInputs(t, 1) \cup FetchInputs(t, 1)
          \cup FetchrowInputs(t, 1) \cup UpdateRecordInputs(t, 1)
          \cup UpdateWhereInputs(t, 1, 1) \cup DeleteRecordInputs(t, 1)
          \cup FetchallInputs(t) \cup FetchWhereInputs(t, 1)
          \cup FetchrowWhereInputs(t, 1)
          \cup {[NoInput EXCEPT !.op = "drop_table", !.table = t,
                                !.cascade = TRUE]} :
     in.returning.tag # "tuple"}

\* The method of the connection the body awaits.
Method(in) ==
  CASE in.op \in {"fetch", "fetchall", "fetch_where"} -> "fetch"
    [] in.op \in {"fetchrow", "fetchrow_where"} -> "fetchrow"
    [] in.op = "insert" -> IF Truthy(in.returning) THEN "fetchrow" ELSE "execute"
    [] in.op = "insert_many" -> "executemany"
    [] OTHER -> "execute"

\* The arguments that follow the statement: *values, which fetch_where and
\* fetchrow_where take from the caller and the others from the builder.
Arguments(c) ==
  IF c.in.op \in {"fetch_where", "fetchrow_where"} THEN c.in.values
  ELSE c.out.args

Step == IF pc = 0 THEN "" ELSE FacadeSteps(call.in.op)[pc]

\* Where an exception raised at step pc goes: to __aexit__ inside the
\* `async with` block, out of the coroutine otherwise.
Unwind(c) ==
  IF c.entered /\ c.released = 0 /\ Step # "aexit"
    THEN CHOOSE i \in DOMAIN FacadeSteps(c.in.op) : FacadeSteps(c.in.op)[i] = "aexit"
    ELSE 0

\* The caller drops the outcome of the call that ended.
Discard ==
  /\ pc = 0
  /\ ~Idle
  /\ result' = NoResult
  /\ call' = NoCall
  /\ sent' = <<>>
  /\ UNCHANGED <<heap, tables, enum, cmp, pc, pool>>

Begin ==
  /\ Idle
  /\ \E t \in DOMAIN tables : \E in \in FacadeInputs(t) :
       \E connection \in {"", CallerConnection} :
         call' = [NoCall EXCEPT !.in = in, !.connection = connection]
  /\ pc' = 1
  /\ sent' = <<>>
  /\ result' = NoResult
  /\ UNCHANGED <<heap, tables, enum, cmp, pool>>

FacadeGenerate ==
  /\ Step = "generate"
  /\ LET out == Generate(heap, tables, call.in)
     IN  /\ call' = [call EXCEPT !.out = out, !.generated = TRUE]
         /\ pc' = IF out.err # NoError THEN Unwind(call) ELSE pc + 1
  /\ UNCHANGED <<heap, tables, result, enum, cmp, pool, sent>>

FacadeEnter ==
  /\ Step = "aenter"
  /\ LET m == MaybeAcquire_aenter(pool, call.connection)
     IN  /\ call' = [call EXCEPT !.entered = TRUE, !.cleanup = m.cleanup,
                                 !.using = m.connection,
                                 !.acquired = IF m.cleanup THEN @ + 1 ELSE @]
         /\ pool' = m.pool
  /\ pc' = pc + 1
  /\ UNCHANGED <<heap, tables, result, enum, cmp, sent>>

\* The statement goes to the executor, which answers or raises.
FacadeBody ==
  /\ Step = "body"
  /\ call.generated
  /\ sent' = Append(sent, [connection |-> call.using, method |-> Method(call.in),
                           sql |-> call.out.sql, args |-> Arguments(call)])
  /\ \E failed \in BOOLEAN :
       /\ call' = [call EXCEPT !.failed = failed]
       /\ pc' = IF failed THEN Unwind(call) ELSE pc + 1
  /\ UNCHANGED <<heap, tables, result, enum, cmp, pool>>

FacadeExit ==
  /\ Step = "aexit"
  /\ pool' = MaybeAcquire_aexit(pool, call.cleanup)
  /\ call' = [call EXCEPT !.released = IF call.cleanup THEN @ + 1 ELSE @]
  /\ pc' = IF pc < Len(FacadeSteps(call.in.op)) /\ call.out.err = NoError /\ ~call.failed
             THEN pc + 1 ELSE 0
  /\ UNCHANGED <<heap, tables, result, enum, cmp, sent>>

Next ==
  \/ CallValidate
  \/ CallInsert
  \/ CallInsertMany
  \/ CallFetch
  \/ CallUpdateRecord
  \/ CallUpdateWhere
  \/ CallDeleteRecord
  \/ CallDropTable
  \/ CallCreateTable
  \/ Discard
  \/ Begin
  \/ FacadeGenerate
  \/ FacadeEnter
  \/ FacadeBody
  \/ FacadeExit

Spec == Init /\ [][Next]_vars

(***************************************************************************)
(* What the claims speak of, stated from the declarations.                 *)
(***************************************************************************)
\* The annotation the class body gave field `key`.
AnnotationOf(tbl, key) ==
  LET i == CHOOSE i \in DOMAIN tbl.annotations : tbl.annotations[i].key = key
  IN  tbl.annotations[i].ann

\* value is nested exactly n lists deep and every leaf is of class kind.
RECURSIVE NestedExactly(_, _, _)
NestedExactly(value, n, kind) ==
  IF n = 0 THEN value.tag = kind
  ELSE /\ value.tag \in {"list", "tuple"}
       /\ \A i \in DOMAIN value.items : NestedExactly(value.items[i], n - 1, kind)

\* value is what the declaration of column `key` asks for: None where the
\* column is nullable, else the declared depth and native kind.
ValidValue(h, tbl, key, value) ==
  LET column == h[ColumnOf(tbl, key)]
  IN  IF value = PyNone THEN column.nullable
      ELSE NestedExactly(value, AnnotationOf(tbl, key).depth, column.type.python)

\* Recognized columns, correct types, no illegal nulls.
ValidKwargs(h, tbl, kwargs) ==
  \A i \in DOMAIN kwargs :
    /\ HasColumn(tbl, kwargs[i].key)
    /\ ValidValue(h, tbl, kwargs[i].key, kwargs[i].value)

IsPrimaryKey(h, tbl, key) == h[ColumnOf(tbl, key)].primary_key

\* The entries of a record that belong to primary-key columns, in its order.
PrimaryKeyPart(h, tbl, record) ==
  LET Test(e) == IsPrimaryKey(h, tbl, e.key)
  IN  SelectSeq(record, Test)

\* [name_j = $(first + j - 1)] for the keys of a mapping.
Numbered(d, first) ==
  [j \in DOMAIN d |-> [name |-> d[j].key, ph |-> first + j - 1]]

(***************************************************************************)
(* C3  genUpdateRecord numbers placeholders contiguously across SET and    *)
(* WHERE: for valid kwargs K of any size n and a record with m valid       *)
(* primary-key entries, SET uses $1..$n in K's order, WHERE uses           *)
(* $n+1..$n+m in the record's primary-key order, args are K's values then  *)
(* the primary-key values.  (The claim as stated; the code breaks it.)     *)
(***************************************************************************)
C3_UpdateRecordContiguous ==
  LET in == result.in
      out == result.out
      tbl == tables[in.table]
      K == in.kwargs
      pk == PrimaryKeyPart(heap, tbl, in.record)
  IN  (in.op = "update_record" /\ ValidKwargs(heap, tbl, K)
         /\ ValidKwargs(heap, tbl, pk))
      => /\ out.err = NoError
         /\ out.sql = <<Text("UPDATE " \o FullName(tbl) \o " SET"),
                        Joined(", ", Numbered(K, 1)),
                        Text("WHERE"),
                        Joined(" AND ", Numbered(pk, Len(K) + 1))>>
         /\ out.args = Values(K) \o Values(pk)

(***************************************************************************)
(* C4  genInsert rejects invalid RETURNING specs: a returning spec that is *)
(* neither falsy nor "*" and is, or contains, anything other than a        *)
(* declared column of the table makes the call fail with a type-mismatch   *)
(* error.  (The claim as stated; the code breaks it.)                      *)
(***************************************************************************)
IsColumnOfTable(h, ts, t, value) ==
  /\ value.tag = "Column"
  /\ \E i \in DOMAIN ts[t].columns : ts[t].columns[i].col = value.n

InvalidReturning(h, ts, t, returning) ==
  LET values == IF IsIterable(returning) THEN Iterate(returning) ELSE <<returning>>
  IN  /\ Truthy(returning)
      /\ returning # PyStr("*")
      /\ \E j \in DOMAIN values : ~IsColumnOfTable(h, ts, t, values[j])

C4_InsertRejectsReturning ==
  LET in == result.in
      out == result.out
  IN  (in.op = "insert" /\ ValidKwargs(heap, tables[in.table], in.kwargs)
         /\ InvalidReturning(heap, tables, in.table, in.returning))
      => out.err \in TypeMismatchErrors /\ out.sql = <<>>

C9_UpdateWhereNumbering ==
  LET in == result.in
      out == result.out
      tbl == tables[in.table]
      K == in.kwargs
      p == Len(in.values)
  IN  (in.op = "update_where" /\ ValidKwargs(heap, tbl, K))
      => /\ out.err = NoError
         /\ out.sql = <<Text("UPDATE " \o FullName(tbl) \o " SET"),
                        Joined(", ", Numbered(K, p + 1)),
                        Text("WHERE"),
                        Text(in.query)>>
         /\ out.args = in.values \o Values(K)
         /\ Len(out.args) = p + Len(K)

\* A call with the most preceding arguments and the most kwargs returned.
C9_Witness ==
  /\ result.in.op = "update_where"
  /\ Len(result.in.values) = MaxArgs
  /\ Len(result.in.kwargs) = MaxKw
  /\ result.out.err = NoError
  /\ result.out.sql[2].items[MaxKw].ph = MaxArgs + MaxKw

C7_ErrorsPrecedeIO ==
  /\ (call.in.op \in FacadeOps /\ call.generated /\ call.out.err # NoError)
       => call.acquired = 0 /\ ~call.entered /\ sent = <<>> /\ pool.in_use = 0
  /\ sent # <<>> => call.generated /\ call.out.err = NoError

\* A call without a connection of its own ended with a generation error.
C7_Witness ==
  /\ call.in.op = "update_record"
  /\ call.connection = ""
  /\ call.generated
  /\ call.out.err # NoError
  /\ pc = 0

(***************************************************************************)
(* Validation of one value: _validate_kwargs is called with a single kwarg *)
(* whose value is any nesting of lists, up to MaxDepth deep and MaxLen     *)
(* long, over None, an int, a bool and a str.                              *)
(***************************************************************************)
Leaves == {PyNone, PyInt(1), PyBool(1), PyStr("x")}

RECURSIVE ValuesOfDepth(_)
ValuesOfDepth(d) ==
  IF d = 0 THEN Leaves
  ELSE LET below == ValuesOfDepth(d - 1)
       IN  below \cup {PyList(items) : items \in SeqsUpTo(below, MaxLen)}

ValueInputs(t) ==
  {[NoInput EXCEPT !.op = "validate", !.table = t,
                   !.kwargs = <<[key |-> k, value |-> v]>>,
                   !.primary_keys_only = p] :
     k \in ColumnKeys(tables[t]) \cup {UnknownKey},
     v \in ValuesOfDepth(MaxDepth), p \in BOOLEAN}

CallValidateValue ==
  /\ Idle
  /\ \E t \in DOMAIN tables : \E in \in ValueInputs(t) : Direct(in)

NextValidate ==
  \/ CallValidateValue
  \/ Discard

SpecValidate == Init /\ [][NextValidate]_vars

(***************************************************************************)
(* C1  Row validation enforces the declared array depth: for a column      *)
(* declared with array depth N >= 1 and native leaf kind k, a value that   *)
(* is not nested exactly N levels deep with every leaf of kind k is        *)
(* rejected with a type-mismatch error.  (The claim as stated; the code    *)
(* breaks it.  None is left out, as the value and as a leaf, and a leaf    *)
(* counts as of kind k when isinstance says so.)                           *)
(***************************************************************************)
RECURSIVE NestedLeaves(_, _, _)
NestedLeaves(value, n, kind) ==
  IF n = 0 THEN IsInstance(value, kind) \/ value = PyNone
  ELSE /\ value.tag \in {"list", "tuple"}
       /\ \A i \in DOMAIN value.items : NestedLeaves(value.items[i], n - 1, kind)

C1_ArrayDepthEnforced ==
  LET in == result.in
      out == result.out
      tbl == tables[in.table]
      key == in.kwargs[1].key
      value == in.kwargs[1].value
  IN  (in.op = "validate" /\ ~in.primary_keys_only /\ Len(in.kwargs) = 1
         /\ HasColumn(tbl, key) /\ AnnotationOf(tbl, key).depth >= 1
         /\ value # PyNone)
      => (~NestedLeaves(value, AnnotationOf(tbl, key).depth,
                        heap[ColumnOf(tbl, key)].type.python)
            => out.err \in TypeMismatchErrors)

(***************************************************************************)
(* Class declarations: starting from no table, class statements are run    *)
(* one after the other until MaxCols fields have been declared.  A field's *)
(* value is a Column built in the class body, which may reference any      *)
(* other Column object that exists by the end of the body, or a Column     *)
(* object that existed before the field: one of an earlier class (bound or *)
(* not) or the one of an earlier field of the same body.                   *)
(***************************************************************************)
ClassName(t) ==
  CASE t = 1 -> "Users" [] t = 2 -> "Points" [] t = 3 -> "Posts"
    [] t = 4 -> "Tags" [] OTHER -> "more"

FieldName(i) ==
  CASE i = 1 -> "id" [] i = 2 -> "name" [] i = 3 -> "tags"
    [] i = 4 -> "coords" [] OTHER -> "more"

\* SQLType.Integer(), SQLType.Serial, SQLType.Text, int, object
Annotations ==
  {Ann(0, "instance", "Integer"), Ann(0, "method", "Serial"),
   Ann(0, "method", "Text"), Ann(0, "python", "int"),
   Ann(0, "python", "object")}

\* The values a field can take in a class body that follows the heap h and
\* builds at most k Column objects.
FieldValues(h, k) ==
  [name : {""}, ann : Annotations, use : {0},
   opts : {[ColumnDefaults EXCEPT !.references = r, !.primary_key = p] :
             r \in 0..(Len(h) + k), p \in BOOLEAN}]
  \cup [name : {""}, ann : Annotations, use : 1..(Len(h) + k),
        opts : {ColumnDefaults}]

\* The class bodies of k fields that can follow the heap h.
ClassBodies(h, k) ==
  {fields \in [1..k -> FieldValues(h, k)] :
     \A i \in 1..k :
       IF IsNew(fields[i])
         THEN /\ fields[i].opts.references # ObjectOf(fields, Len(h), i)
              /\ fields[i].opts.references <= Len(h) + NewBefore(fields, k)
         ELSE fields[i].use <= Len(h) + NewBefore(fields, i)}

RECURSIVE FieldsDeclared(_)
FieldsDeclared(ts) ==
  IF ts = <<>> THEN 0
  ELSE Len(Head(ts).annotations) + FieldsDeclared(Tail(ts))

InitBind ==
  /\ heap = <<>>
  /\ tables = <<>>
  /\ result = NoResult
  /\ enum = NoEnum
  /\ cmp = NoCmp
  /\ pc = 0
  /\ call = NoCall
  /\ pool = [in_use |-> 0]
  /\ sent = <<>>

\* class <ClassName>(Table): <fields>
DeclareTable ==
  /\ Idle
  /\ FieldsDeclared(tables) < MaxCols
  /\ \E k \in 1..(MaxCols - FieldsDeclared(tables)) :
       \E body \in ClassBodies(heap, k) :
         LET fields == [i \in 1..k |-> [body[i] EXCEPT !.name = FieldName(i)]]
             new == TableMetaNew(heap, tables,
                                 [name |-> ClassName(Len(tables) + 1),
                                  parents |-> 0, schema |-> "public",
                                  fields |-> fields])
         IN  /\ heap' = new.heap
             /\ tables' = new.tables
  /\ UNCHANGED <<result, enum, cmp, pc, call, pool, sent>>

NextBind ==
  \/ DeclareTable
  \/ CallDropTable
  \/ CallCreateTable
  \/ Discard

SpecBind == InitBind /\ [][NextBind]_vars

\* Field i of table t was reached by the loop of _TableMeta.__new__: the
\* fields before it were bound without an exception.
Reached(t, i) == i <= Len(tables[t].columns) + 1

\* The loop ended at field i of table t with the exception err.
FailedAt(t, i, err) == i = Len(tables[t].columns) + 1 /\ tables[t].err = err

\* Field i of table t is the last field that was given its Column object: t
\* is the class declared last and no later field of its body has the object.
Latest(t, i) ==
  /\ t = Len(tables)
  /\ \A j \in DOMAIN tables[t].dct : j > i => tables[t].dct[j] # tables[t].dct[i]

(***************************************************************************)
(* C2  Foreign-key type equality is checked at table binding: binding a    *)
(* column with a reference fails with a type-mismatch error when the       *)
(* referenced column's type differs by SQL keyword and succeeds when it is *)
(* equal; so no table holds a type-mismatched foreign key in its columns,  *)
(* and no query builder is ever called on such a table.  (The claim as     *)
(* stated; the code breaks it.)                                            *)
(***************************************************************************)
MismatchedReference(h, c) ==
  h[c].references # 0 /\ h[c].type.sql # h[h[c].references].type.sql

HoldsMismatch(h, tbl) ==
  \E j \in DOMAIN tbl.columns : MismatchedReference(h, tbl.columns[j].col)

C2_ForeignKeyTypeChecked ==
  /\ \A t \in DOMAIN tables : ~HoldsMismatch(heap, tables[t])
  /\ result.in.op # "" => ~HoldsMismatch(heap, tables[result.in.table])

(***************************************************************************)
(* C5  Type inference at binding: a field declared with an explicit        *)
(* logical type is bound to exactly that type; a field declared with a     *)
(* native kind k is bound to the registry's default for k when one is      *)
(* registered, and binding fails with an unknown-type error only when none *)
(* is.  Stated of the class declared last and, for each Column object, of  *)
(* the last field that was given it.  (The claim as stated; the code       *)
(* breaks it.)                                                             *)
(***************************************************************************)
C5_TypeInference ==
  \A t \in DOMAIN tables : \A i \in DOMAIN tables[t].annotations :
    LET ann == tables[t].annotations[i].ann
        column == heap[tables[t].dct[i]]
    IN  (Reached(t, i) /\ Latest(t, i)) =>
          /\ ann.form \in {"instance", "method"} => column.type = Factory(ann.of)
          /\ (ann.form = "python" /\ ann.of \in DefaultKeys)
               => column.type = Factory(defaults(ann.of))
          /\ FailedAt(t, i, ErrNoSQLType)
               => ann.form = "python" /\ ann.of \notin DefaultKeys

(***************************************************************************)
(* enum.py: an Enum subclass is declared with string-valued members, then  *)
(* two of its members are compared with <, >, <= and >=.  A member is its  *)
(* position in _member_map_ (the declaration order); its value is a        *)
(* string, kept as the sequence of its code points.  Members have distinct *)
(* values (a repeated value would declare an alias, not a member).         *)
(***************************************************************************)
Alphabet == 1..MaxLen

MemberValues == {v \in SeqsUpTo(Alphabet, MaxLen) : v # <<>>}

EnumDeclarations ==
  {m \in SeqsUpTo(MemberValues, MaxMembers) : m # <<>> /\ IsInjective(m)}

\* str.__lt__: the code points are compared from the left, and a proper
\* prefix comes first.
RECURSIVE StrLt(_, _)
StrLt(s, t) ==
  IF t = <<>> THEN FALSE
  ELSE IF s = <<>> THEN TRUE
  ELSE IF Head(s) # Head(t) THEN Head(s) < Head(t)
  ELSE StrLt(Tail(s), Tail(t))

\* Enum.__lt__ on two members of the same class
Enum_lt(e, a, b) == a < b

ComparisonOps == {"__lt__", "__gt__", "__le__", "__ge__"}

\* The comparison operators the body of Enum defines, and those the class
\* inherits from str.
EnumBodyOps == {"__lt__"}

StrOps == {"__lt__", "__gt__", "__le__", "__ge__"}

\* functools.total_ordering: the operators of the class that are not those
\* of object; only the others are derived from the root.
Roots == {op \in ComparisonOps : op \in EnumBodyOps \/ op \in StrOps}

\* The operator op as str defines it, on the members' values.
StrCompare(op, s, t) ==
  CASE op = "__lt__" -> StrLt(s, t)
    [] op = "__gt__" -> StrLt(t, s)
    [] op = "__le__" -> ~StrLt(t, s)
    [] op = "__ge__" -> ~StrLt(s, t)

\* The operator op as total_ordering derives it from __lt__ (and from ==,
\* which the class takes from str).
FromLt(op, e, a, b) ==
  CASE op = "__lt__" -> Enum_lt(e, a, b)
    [] op = "__gt__" -> ~Enum_lt(e, a, b) /\ e.members[a] # e.members[b]
    [] op = "__le__" -> Enum_lt(e, a, b) \/ e.members[a] = e.members[b]
    [] op = "__ge__" -> ~Enum_lt(e, a, b)

\* Whether total_ordering sets the operator op on the class.
Derived(op) == op \notin Roots

\* a <op> b for two members of the enum e, as the decorated class answers.
Compare(op, e, a, b) ==
  IF op \in EnumBodyOps THEN Enum_lt(e, a, b)
  ELSE IF Derived(op) THEN FromLt(op, e, a, b)
  ELSE StrCompare(op, e.members[a], e.members[b])

InitEnum ==
  /\ heap = <<>>
  /\ tables = <<>>
  /\ result = NoResult
  /\ enum = NoEnum
  /\ cmp = NoCmp
  /\ pc = 0
  /\ call = NoCall
  /\ pool = [in_use |-> 0]
  /\ sent = <<>>

\* class <name>(Enum): <members>
DeclareEnum ==
  /\ enum = NoEnum
  /\ \E m \in EnumDeclarations : enum' = [members |-> m]
  /\ UNCHANGED <<heap, tables, result, cmp, pc, call, pool, sent>>

\* a < b, a > b, a <= b, a >= b
CompareMembers ==
  /\ enum # NoEnum
  /\ \E a \in DOMAIN enum.members : \E b \in DOMAIN enum.members :
       cmp' = [a |-> a, b |-> b,
               lt |-> Compare("__lt__", enum, a, b),
               gt |-> Compare("__gt__", enum, a, b),
               le |-> Compare("__le__", enum, a, b),
               ge |-> Compare("__ge__", enum, a, b)]
  /\ UNCHANGED <<heap, tables, result, enum, pc, call, pool, sent>>

NextEnum ==
  \/ DeclareEnum
  \/ CompareMembers

SpecEnum == InitEnum /\ [][NextEnum]_vars

(***************************************************************************)
(* C6  Enum members are strictly totally ordered by declaration position:  *)
(* a < b holds iff a was declared before b, and >, <= and >= agree with    *)
(* that same positional order, whatever the members' string values.  (The  *)
(* claim as stated; the code breaks it.)                                   *)
(***************************************************************************)
C6_EnumPositionalOrder ==
  cmp # NoCmp =>
    /\ cmp.lt <=> cmp.a < cmp.b
    /\ cmp.gt <=> cmp.a > cmp.b
    /\ cmp.le <=> cmp.a <= cmp.b
    /\ cmp.ge <=> cmp.a >= cmp.b

(***************************************************************************)
(* C11  genCreateTable completeness and order: for every declared table T, *)
(* the CREATE TABLE text holds one column clause for every column of T     *)
(* exactly once, in declaration order, followed by exactly one PRIMARY KEY *)
(* clause listing all and only the primary-key columns, in declaration     *)
(* order.  The columns of T are the keys of its _columns.  (The claim as   *)
(* stated; the code breaks it.)                                            *)
(***************************************************************************)
\* The clause of the column declared as `key`: its name, then what its
\* descriptor adds.
DeclaredClause(h, ts, key, c) ==
  Text("\t" \o StrJoin(" ", <<key>> \o Tail(Column_str(h, ts, c))) \o ",")

\* The primary-key columns of tbl by their declared names, in declaration
\* order.
DeclaredPrimaryKeys(h, tbl) ==
  LET IsKey(e) == h[e.col].primary_key
      keys == SelectSeq(tbl.columns, IsKey)
  IN  [j \in DOMAIN keys |-> keys[j].key]

C11_CreateTableComplete ==
  LET in == result.in
      out == result.out
      tbl == tables[in.table]
  IN  in.op = "create_table" =>
        /\ out.err = NoError
        /\ out.sql =
             <<Text("CREATE TABLE IF NOT EXISTS " \o FullName(tbl) \o " (")>>
             \o [j \in DOMAIN tbl.columns |->
                   DeclaredClause(heap, tables, tbl.columns[j].key,
                                  tbl.columns[j].col)]
             \o <<Text("\tPRIMARY KEY ("
                       \o StrJoin(", ", DeclaredPrimaryKeys(heap, tbl)) \o ")"),
                  Text(");")>>

(***************************************************************************)
(* C12  No implicit coercion in validation: for a scalar column of native  *)
(* kind k, validation fails with a type-mismatch error for every non-null  *)
(* value whose native kind is not k, and an array-declared column never    *)
(* accepts a value that is no array, on the strength of the scalar check.  *)
(* (The claim as stated; the code breaks it.)                              *)
(***************************************************************************)
C12_NoCoercion ==
  LET in == result.in
      out == result.out
      tbl == tables[in.table]
      key == in.kwargs[1].key
      value == in.kwargs[1].value
      column == heap[ColumnOf(tbl, key)]
  IN  (in.op = "validate" /\ ~in.primary_keys_only /\ Len(in.kwargs) = 1
         /\ HasColumn(tbl, key) /\ value # PyNone)
      => IF AnnotationOf(tbl, key).depth = 0
           THEN value.tag # column.type.python => out.err \in TypeMismatchErrors
           ELSE value.tag \notin {"list", "tuple"} => out.err \in TypeMismatchErrors

(***************************************************************************)
(* C13  Column descriptors are write-once: over any sequence of class      *)
(* statements, once a column's name, type, array flag and owning table     *)
(* have been set by a binding, no later step changes them.  (The claim as  *)
(* stated; the code breaks it.)                                            *)
(***************************************************************************)
C13_WriteOnce ==
  [][\A c \in DOMAIN heap :
       heap[c].table # 0 =>
         /\ heap'[c].name = heap[c].name
         /\ heap'[c].type = heap[c].type
         /\ heap'[c].is_array = heap[c].is_array
         /\ heap'[c].table = heap[c].table]_vars

(***************************************************************************)
(* C14  Array depth is resolved and rendered exactly: for a field declared *)
(* with N nested list markers around its type, binding records the array   *)
(* depth N (0 for a scalar), and the column's fragment of the CREATE TABLE *)
(* text has exactly N '[]' after the SQL keyword.  Stated of the columns   *)
(* without DEFAULT and REFERENCES; is_array counts as the number it is     *)
(* (False 0, True 1).  (The claim as stated; the code breaks it.)          *)
(***************************************************************************)
RECURSIVE Repeat(_, _)
Repeat(str, n) == IF n = 0 THEN "" ELSE str \o Repeat(str, n - 1)

RecordedDepth(column) == IF column.is_array THEN 1 ELSE 0

C14_ArrayDepthExact ==
  LET in == result.in
      out == result.out
      tbl == tables[in.table]
  IN  (in.op = "create_table" /\ out.err = NoError) =>
        \A j \in DOMAIN tbl.columns :
          LET key == tbl.columns[j].key
              column == heap[tbl.columns[j].col]
              N == AnnotationOf(tbl, key).depth
          IN  (~column.has_default /\ column.references = 0) =>
                /\ RecordedDepth(column) = N
                /\ out.sql[j + 1] =
                     Text("\t" \o key \o " " \o column.type.sql
                          \o (IF N > 0 THEN " " \o Repeat("[]", N) ELSE "") \o ",")

(***************************************************************************)
(* C15  ORDER BY is honoured by every fetch operation: for fetch,          *)
(* fetchall, fetch_where, fetchrow and fetchrow_where, when order_by is    *)
(* not None the statement sent to the executor has 'ORDER BY <order_by>'   *)
(* once, after the WHERE clause and before any LIMIT clause, and when      *)
(* order_by is None it has no ORDER BY clause.  (The claim as stated; the  *)
(* code breaks it.)                                                        *)
(***************************************************************************)
FetchOps == {"fetch", "fetchall", "fetch_where", "fetchrow", "fetchrow_where"}

OrderByParts == {Text("ORDER BY " \o o.s) : o \in OrderBys \ {PyNone}}

LimitParts == {Text("LIMIT " \o ToString(l.n)) : l \in Limits \ {PyNone}}

C15_OrderByHonoured ==
  \A i \in DOMAIN sent :
    LET sql == sent[i].sql
        order_by == call.in.order_by
    IN  call.in.op \in FetchOps =>
          IF order_by # PyNone
            THEN \E j \in DOMAIN sql :
                   /\ sql[j] = Text("ORDER BY " \o order_by.s)
                   /\ \A k \in DOMAIN sql :
                        /\ k < j => sql[k] \notin OrderByParts \cup LimitParts
                        /\ k > j => sql[k] \in LimitParts
            ELSE \A j \in DOMAIN sql : sql[j] \notin OrderByParts

(***************************************************************************)
(* C16  Connection acquire/release pairing in MaybeAcquire: when the       *)
(* caller supplied a connection, that connection is the one yielded and    *)
(* the pool is neither acquired from nor released to; when none was        *)
(* supplied, one connection is acquired from the pool on entry and         *)
(* released to it once on exit, whether the body finished or raised, so    *)
(* that none is leaked or released twice.  Statements go to the yielded    *)
(* connection.                                                             *)
(***************************************************************************)
C16_AcquireReleasePaired ==
  /\ call.released <= call.acquired
  /\ call.acquired <= 1
  /\ pool.in_use = call.acquired - call.released
  /\ call.entered =>
       IF call.connection # ""
         THEN call.using = call.connection /\ call.acquired = 0 /\ ~call.cleanup
         ELSE call.using = PoolConnection /\ call.acquired = 1 /\ call.cleanup
  /\ (pc = 0 /\ call.entered) => call.released = call.acquired /\ pool.in_use = 0
  /\ \A i \in DOMAIN sent : sent[i].connection = call.using

\* A call without a connection of its own ended after its body raised, the
\* acquired connection released.
C16_Witness ==
  /\ pc = 0
  /\ call.entered
  /\ call.connection = ""
  /\ call.failed
  /\ sent # <<>>
  /\ call.acquired = 1
  /\ call.released = 1
  /\ pool.in_use = 0

(***************************************************************************)
(* drop_table, create_table and create_tables, which call one another      *)
(* inside their `async with MaybeAcquire` blocks.  call.frames is the      *)
(* stack of the coroutines in flight, the innermost last; a frame keeps    *)
(* the coroutine's arguments, its position ip in its body, and its         *)
(* MaybeAcquire object (cleanup, and yielded: the connection the block     *)
(* bound to the name `connection`).  pc is 1 while the outermost coroutine *)
(* runs.  An exception raised by the executor (call.failed) leaves every   *)
(* block through its __aexit__.                                            *)
(***************************************************************************)
Frame(op, table, connection, drop_if_exists) ==
  [op |-> op, table |-> table, connection |-> connection,
   drop_if_exists |-> drop_if_exists, ip |-> 1, entered |-> FALSE,
   cleanup |-> FALSE, yielded |-> ""]

\* class Archive(<parent>):   with parent 0 for Table itself, or a table
\*     id: SQLType.Integer = Column(primary_key=True)
\*     note: SQLType.Text
ClassArchive(parent) ==
  [name |-> "Archive", parents |-> parent, schema |-> "public",
   fields |-> <<Field("id", Ann(0, "method", "Integer"), PrimaryKey),
                Field("note", Ann(0, "method", "Text"), ColumnDefaults)>>]

\* Table.__subclasses__(): the classes whose parent is Table itself, in the
\* order of their class statements.
RECURSIVE Subclasses(_, _)
Subclasses(ts, t) ==
  IF t > Len(ts) THEN <<>>
  ELSE (IF ts[t].parents = 0 THEN <<t>> ELSE <<>>) \o Subclasses(ts, t + 1)

\* The body of each coroutine, one entry per await.
Body(f, ts) ==
  CASE f.op = "drop_table" -> <<"aenter", "execute_drop", "aexit">>
    [] f.op = "create_table" ->
         <<"aenter">>
         \o (IF f.drop_if_exists THEN <<"call_drop_table">> ELSE <<>>)
         \o <<"execute_schema", "execute_create", "aexit">>
    [] f.op = "create_tables" ->
         <<"aenter">>
         \o [k \in DOMAIN Subclasses(ts, 1) |-> "call_create_table"]
         \o <<"aexit">>

Top == call.frames[Len(call.frames)]

Instruction ==
  IF pc = 0 \/ call.frames = <<>> THEN ""
  ELSE IF call.failed THEN "aexit"
  ELSE Body(Top, tables)[Top.ip]

\* What replaces the top frame.
SetTop(f) == [call.frames EXCEPT ![Len(call.frames)] = f]

\* The connection argument of a nested call: the name `connection`, which
\* the `async with` statement bound to what __aenter__ returned.
PassedConnection(f) == f.yielded

CreateInputs ==
  {[NoInput EXCEPT !.op = "drop_table", !.table = t] : t \in DOMAIN tables}
  \cup {[NoInput EXCEPT !.op = "create_table", !.table = t, !.drop_if_exists = d] :
          t \in DOMAIN tables, d \in BOOLEAN}
  \cup {[NoInput EXCEPT !.op = "create_tables", !.drop_if_exists = d] :
          d \in BOOLEAN}

\* One more class statement, of a table that subclasses Table or a table.
DeclareSubclass ==
  /\ Idle
  /\ Len(tables) = Len(Schema.tables)
  /\ \E parent \in 0..Len(tables) :
       LET new == TableMetaNew(heap, tables, ClassArchive(parent))
       IN  /\ heap' = new.heap
           /\ tables' = new.tables
  /\ UNCHANGED <<result, enum, cmp, pc, call, pool, sent>>

BeginCreate ==
  /\ Idle
  /\ \E in \in CreateInputs : \E connection \in {"", CallerConnection} :
       call' = [NoCall EXCEPT
                  !.in = in, !.connection = connection,
                  !.frames = <<Frame(in.op, in.table, connection,
                                     in.drop_if_exists)>>]
  /\ pc' = 1
  /\ sent' = <<>>
  /\ UNCHANGED <<heap, tables, result, enum, cmp, pool>>

\* async with MaybeAcquire(connection) as connection:
CreateEnter ==
  /\ Instruction = "aenter"
  /\ LET m == MaybeAcquire_aenter(pool, Top.connection)
     IN  /\ call' = [call EXCEPT
                       !.frames = SetTop([Top EXCEPT !.entered = TRUE,
                                                     !.cleanup = m.cleanup,
                                                     !.yielded = m.connection,
                                                     !.ip = @ + 1]),
                       !.acquired = IF m.cleanup THEN @ + 1 ELSE @]
         /\ pool' = m.pool
  /\ UNCHANGED <<heap, tables, result, enum, cmp, pc, sent>>

\* await cls.drop_table(connection) and
\* await table.create_table(connection=connection, drop_if_exists=drop_if_exists)
CreateCall ==
  /\ Instruction \in {"call_drop_table", "call_create_table"}
  /\ LET callee ==
           IF Instruction = "call_drop_table"
             THEN Frame("drop_table", Top.table, PassedConnection(Top), FALSE)
             ELSE Frame("create_table", Subclasses(tables, 1)[Top.ip - 1],
                        PassedConnection(Top),
                        Top.drop_if_exists)
     IN  call' = [call EXCEPT !.frames = Append(call.frames, callee)]
  /\ UNCHANGED <<heap, tables, result, enum, cmp, pc, pool, sent>>

\* The statement an execute step builds.
Statement(f, h, ts) ==
  CASE Body(f, ts)[f.ip] = "execute_drop" -> query_drop_table(ts[f.table], TRUE)
    [] Body(f, ts)[f.ip] = "execute_schema" -> query_create_schema(ts[f.table])
    [] Body(f, ts)[f.ip] = "execute_create" -> query_create_table(h, ts, ts[f.table])

\* await connection.execute(...): the executor answers or raises.
CreateExecute ==
  /\ Instruction \in {"execute_drop", "execute_schema", "execute_create"}
  /\ sent' = Append(sent, [connection |-> Top.yielded, method |-> "execute",
                           sql |-> Statement(Top, heap, tables).sql,
                           args |-> <<>>])
  /\ \E failed \in BOOLEAN :
       call' = [call EXCEPT !.failed = failed,
                            !.frames = SetTop([Top EXCEPT !.ip = @ + 1])]
  /\ UNCHANGED <<heap, tables, result, enum, cmp, pc, pool>>

\* __aexit__, then the return to the caller (or the end of the outermost
\* coroutine), which goes on after its call unless an exception passes.
CreateExit ==
  /\ Instruction = "aexit"
  /\ pool' = MaybeAcquire_aexit(pool, Top.cleanup)
  /\ LET rest == SubSeq(call.frames, 1, Len(call.frames) - 1)
         back == IF rest = <<>> \/ call.failed THEN rest
                 ELSE [rest EXCEPT ![Len(rest)].ip = @ + 1]
     IN  /\ call' = [call EXCEPT !.frames = back,
                                 !.released = IF Top.cleanup THEN @ + 1 ELSE @]
         /\ pc' = IF rest = <<>> THEN 0 ELSE pc
  /\ UNCHANGED <<heap, tables, result, enum, cmp, sent>>

NextCreate ==
  \/ DeclareSubclass
  \/ BeginCreate
  \/ CreateEnter
  \/ CreateCall
  \/ CreateExecute
  \/ CreateExit
  \/ Discard

SpecCreate == Init /\ [][NextCreate]_vars

\* The statements create_table is to send for table t, in order.
CreateSequence(h, ts, t, drop_if_exists) ==
  (IF drop_if_exists THEN <<query_drop_table(ts[t], TRUE).sql>> ELSE <<>>)
  \o <<query_create_schema(ts[t]).sql, query_create_table(h, ts, ts[t]).sql>>

\* The sequences of the tables t, t + 1, ... one after the other.
RECURSIVE CreateSequences(_, _, _, _)
CreateSequences(h, ts, t, drop_if_exists) ==
  IF t > Len(ts) THEN <<>>
  ELSE CreateSequence(h, ts, t, drop_if_exists)
       \o CreateSequences(h, ts, t + 1, drop_if_exists)

\* What the call in flight is to send: for create_tables, the sequence of
\* every declared table.
ToSend ==
  CASE call.in.op = "create_table" ->
         CreateSequence(heap, tables, call.in.table, call.in.drop_if_exists)
    [] call.in.op = "create_tables" ->
         CreateSequences(heap, tables, 1, call.in.drop_if_exists)
    [] OTHER -> <<>>

SentSql == [i \in DOMAIN sent |-> sent[i].sql]

IsPrefix(s, t) == Len(s) <= Len(t) /\ s = SubSeq(t, 1, Len(s))

\* C17: a call of create_table or create_tables sends all its statements on
\* one connection (the caller's, else the one connection it acquired from
\* the pool); what it has sent is at every moment the beginning of: for
\* each table, DROP TABLE IF EXISTS ... CASCADE when drop_if_exists is
\* true, then CREATE SCHEMA IF NOT EXISTS, then CREATE TABLE IF NOT EXISTS;
\* the nested calls acquire nothing, so at most one connection is acquired;
\* it is released only when nothing more is to be sent; and a call that ends
\* without an exception has sent the sequence of every declared table.
C17_CreateTableSequence ==
  call.in.op \in {"create_table", "create_tables"} =>
    /\ \A i \in DOMAIN sent :
         sent[i].connection = (IF call.connection = "" THEN PoolConnection
                               ELSE call.connection)
    /\ call.acquired <= 1
    /\ call.connection # "" => call.acquired = 0
    /\ pool.in_use = call.acquired - call.released
    /\ call.released > 0 => call.frames = <<>>
    /\ IsPrefix(SentSql, ToSend)
    /\ (pc = 0 /\ ~call.failed) => SentSql = ToSend /\ pool.in_use = 0

====
